---- MODULE Spec2Model ----
(***************************************************************************)
(* Hearts rules engine (pokedart9001/Hearts): Deck, Player, CLIController  *)
(* and Game::round / Game::turn / Game::pass_cards, driven as main drives  *)
(* them.  One action per collaborator interaction: round() runs from one   *)
(* controller query to the next, so each action is the code executed       *)
(* between two queries.                                                    *)
(*                                                                         *)
(* The deck of the model holds the ranks of RankSeq in the four suits      *)
(* instead of all thirteen ranks; a hand is a quarter of the deck and a    *)
(* round has as many tricks as a hand has cards, as in the code, where     *)
(* both numbers are 13 = 52 / 4.                                           *)
(***************************************************************************)
EXTENDS Integers, Sequences, FiniteSets, TLC

\* ------------------------------------------------------------ bounds
\* how many of the shuffles of ShuffleList the random shuffle may produce
NumShuffles == 2
\* how many rounds main's loop is followed for
MaxRounds == 3
\* the rounds followed by the specification of the long game
LongRounds == 5
\* the longest table prefix handed to a stand-alone get_card_to_place query
MaxTableLen == 2

\* ------------------------------------------------------------ card.rs
Two == 2
Queen == 12
King == 13

\* the ranks in play, in Rank::iter() order
RankSeq == <<Two, Queen, King>>
\* Suit::iter() order
SuitSeq == <<"Hearts", "Clubs", "Diamonds", "Spades">>

Card(r, s) == [rank |-> r, suit |-> s]

QueenOfSpadesScore == 13

Score(c) ==
    IF c.rank = Queen /\ c.suit = "Spades" THEN QueenOfSpadesScore
    ELSE IF c.suit = "Hearts" THEN 1
    ELSE 0

IsTwoOfClubs(c) == c.rank = Two /\ c.suit = "Clubs"

IsHearts(c) == c.suit = "Hearts"

\* derived Ord of Card: the rank alone, the suit is ignored
CardKey(c) == c.rank

\* ------------------------------------------------------------ helpers
Range(s) == {s[k] : k \in 1..Len(s)}

RECURSIVE SeqSum(_)
SeqSum(s) == IF s = <<>> THEN 0 ELSE Head(s) + SeqSum(Tail(s))

\* u8 arithmetic
U8Mod == 256
AddU8(a, b) == (a + b) % U8Mod

\* ------------------------------------------------------------ main.rs / seats
NumPlayers == 4
Seats == 0..(NumPlayers - 1)
MAX_SCORE == 100

\* ------------------------------------------------------------ deck.rs
\* Deck::new: Rank::iter() x Suit::iter(), rank-major
NewDeck ==
    [k \in 1..(Len(RankSeq) * Len(SuitSeq)) |->
        Card(RankSeq[((k - 1) \div Len(SuitSeq)) + 1], SuitSeq[((k - 1) % Len(SuitSeq)) + 1])]

DeckSize == Len(NewDeck)
\* the block dealt to each player: 13 of 52 in the code
HandSize == DeckSize \div NumPlayers

\* permutations the random shuffle is taken from (positions of the deck)
ShuffleList ==
    << <<2, 6, 3, 10, 1, 5, 9, 7, 11, 4, 8, 12>>,
       <<1, 6, 11, 4, 9, 2, 7, 12, 5, 10, 3, 8>>,
       <<1, 2, 3, 4, 5, 6, 7, 8, 9, 10, 11, 12>>,
       <<2, 9, 4, 11, 6, 1, 8, 3, 10, 5, 12, 7>> >>

Shuffles == {ShuffleList[k] : k \in 1..(IF NumShuffles < Len(ShuffleList) THEN NumShuffles ELSE Len(ShuffleList))}

\* Deck::shuffle: permutes self.cards in place
Shuffle(d, p) == [k \in 1..Len(d) |-> d[p[k]]]

\* a slice whose blocks overlap by one card
DealBlockOverlap(d, i) == SubSeq(d, i * (HandSize - 1) + 1, i * (HandSize - 1) + HandSize)

\* the slice cards[(i * 13)..((i + 1) * 13)] of Deck::deal
DealBlock(d, i) == SubSeq(d, i * HandSize + 1, (i + 1) * HandSize)

\* ------------------------------------------------------------ player.rs
\* Player::take
Take(h, cards) == h \o cards

\* Player::pass: partition of the hand by membership in choices
Pass(h, choices) ==
    [to_pass |-> SelectSeq(h, LAMBDA c : c \in choices),
     to_keep |-> SelectSeq(h, LAMBDA c : c \notin choices)]

\* Player::place: None when the card is not in the hand
Position(h, c) == CHOOSE k \in 1..Len(h) : h[k] = c /\ \A j \in 1..(k - 1) : h[j] # c

\* a card that is not in the hand is returned all the same
PlaceUnchecked(h, c) ==
    IF c \in Range(h)
    THEN [ok |-> TRUE, hand |-> SubSeq(h, 1, Position(h, c) - 1) \o SubSeq(h, Position(h, c) + 1, Len(h))]
    ELSE [ok |-> TRUE, hand |-> h]

\* the front card leaves the hand, whichever card was named
PlaceFront(h, c) ==
    IF c \in Range(h)
    THEN [ok |-> TRUE, hand |-> Tail(h)]
    ELSE [ok |-> FALSE, hand |-> h]

\* Player::place
Place(h, c) ==
    IF c \in Range(h)
    THEN [ok |-> TRUE, hand |-> SubSeq(h, 1, Position(h, c) - 1) \o SubSeq(h, Position(h, c) + 1, Len(h))]
    ELSE [ok |-> FALSE, hand |-> h]

\* Player::has_two_of_clubs
HasTwoOfClubs(h) == \E c \in Range(h) : IsTwoOfClubs(c)

\* Deck::deal: every player takes its block
Deal(hs, d) == [i \in Seats |-> Take(hs[i], DealBlock(d, i))]

\* derived PartialEq of Player: name, hand and score, by value
PlayerEq(nm, hs, sc, p, q) == nm[p] = nm[q] /\ hs[p] = hs[q] /\ sc[p] = sc[q]

\* ------------------------------------------------------------ controller.rs
\* ExactLengthValidator::new(3) of get_cards_to_pass
PassCount == 3

\* itertools sorted(): a stable sort by the derived Ord of Card
RECURSIVE InsertSorted(_, _)
InsertSorted(s, c) ==
    IF s = <<>> THEN <<c>>
    ELSE IF CardKey(c) < CardKey(Head(s)) THEN <<c>> \o s
    ELSE <<Head(s)>> \o InsertSorted(Tail(s), c)

RECURSIVE Sorted(_)
Sorted(s) == IF s = <<>> THEN <<>> ELSE InsertSorted(Sorted(SubSeq(s, 1, Len(s) - 1)), s[Len(s)])

\* a filter chain without the no-hearts filter
FilteredWithoutHeartsRule(h, tbl, is_first_move, hps) ==
    Sorted(
        SelectSeq(
            SelectSeq(h, LAMBDA c : ~is_first_move \/ IsTwoOfClubs(c)),
            LAMBDA c : IF tbl # <<>> THEN c.suit = tbl[1][2].suit ELSE TRUE))

\* a filter chain without the two-of-clubs filter
FilteredWithoutFirstMove(h, tbl, is_first_move, hps) ==
    Sorted(
        SelectSeq(
            SelectSeq(h, LAMBDA c : IF tbl # <<>> THEN c.suit = tbl[1][2].suit ELSE TRUE),
            LAMBDA c : IF hps[1] = "NoHeartsPlayed" THEN ~IsHearts(c) ELSE TRUE))

\* the three filters of get_card_to_place, in the code's order
FilteredCardOptions(h, tbl, is_first_move, hps) ==
    Sorted(
        SelectSeq(
            SelectSeq(
                SelectSeq(h, LAMBDA c : ~is_first_move \/ IsTwoOfClubs(c)),
                LAMBDA c : IF tbl # <<>> THEN c.suit = tbl[1][2].suit ELSE TRUE),
            LAMBDA c : IF hps[1] = "NoHeartsPlayed" THEN ~IsHearts(c) ELSE TRUE))

\* the filtered cards are handed to Select::new even when none is left
CardOptionsNoFallback(h, tbl, is_first_move, hps) == FilteredCardOptions(h, tbl, is_first_move, hps)

\* the options handed to Select::new: the filtered cards, or the whole hand when none is left
CardOptions(h, tbl, is_first_move, hps) ==
    IF FilteredCardOptions(h, tbl, is_first_move, hps) = <<>>
    THEN Sorted(h)
    ELSE FilteredCardOptions(h, tbl, is_first_move, hps)

\* the options of the MultiSelect of get_cards_to_pass: answers of exactly 3 of them
PassAnswers(h) == {cs \in SUBSET Range(Sorted(h)) : Cardinality(cs) = PassCount}

\* ------------------------------------------------------------ game.rs
NoHeartsPlayed == <<"NoHeartsPlayed">>
HeartsPlayedOne(p) == <<"HeartsPlayedOne", p>>
HeartsPlayedMany == <<"HeartsPlayedMany">>

\* the cycle with Left and Right exchanged
PassingOrdersLeftFirst == <<"Left", "Across", "Right", "Hold">>
\* PassingOrder::iter().cycle()
PassingOrders == <<"Right", "Across", "Left", "Hold">>

\* a rotation table whose Left row repeats the Right row
PassingIndicesLeftAsRight(order) ==
    CASE order = "Right" -> << <<0, 1>>, <<1, 2>>, <<2, 3>>, <<3, 0>> >>
      [] order = "Across" -> << <<0, 2>>, <<1, 3>>, <<2, 0>>, <<3, 1>> >>
      [] order = "Left" -> << <<0, 1>>, <<1, 2>>, <<2, 3>>, <<3, 0>> >>
      [] OTHER -> <<>>

\* Game::passing_indices: (giver, receiver) pairs, <<>> for None
PassingIndices(order) ==
    CASE order = "Right" -> << <<0, 1>>, <<1, 2>>, <<2, 3>>, <<3, 0>> >>
      [] order = "Across" -> << <<0, 2>>, <<1, 3>>, <<2, 0>>, <<3, 1>> >>
      [] order = "Left" -> << <<0, 3>>, <<1, 0>>, <<2, 1>>, <<3, 2>> >>
      [] OTHER -> <<>>

\* the seats taken counter-clockwise from starting_index
RoundOrderBackwards(starting_index) == [k \in 1..NumPlayers |-> (starting_index + NumPlayers - (k - 1)) % NumPlayers]

\* Game::round_order
RoundOrder(starting_index) == [k \in 1..NumPlayers |-> ((k - 1) + starting_index) % NumPlayers]

\* Iterator::max_by_key: the last element among those of maximal key
MaxByKey(s) ==
    s[CHOOSE k \in 1..Len(s) :
        /\ \A j \in 1..Len(s) : CardKey(s[j][2]) <= CardKey(s[k][2])
        /\ \A j \in (k + 1)..Len(s) : CardKey(s[j][2]) < CardKey(s[k][2])]

\* a trick resolution that forgets the led suit
TrickWinnerAnySuit(tbl) == MaxByKey(tbl)

\* Game::turn, lines 152-157: <<winner_index, winning_card>>
TrickWinner(tbl) == MaxByKey(SelectSeq(tbl, LAMBDA e : e[2].suit = tbl[1][2].suit))

\* Game::turn, line 159
TrickScore(tbl) == SeqSum([k \in 1..Len(tbl) |-> Score(tbl[k][2])])

\* Game::turn, line 160
HeartsPlayed(tbl) == \E k \in 1..Len(tbl) : IsHearts(tbl[k][2])

\* the state records the latest winner of a hearts trick, whoever won the earlier ones
NextHeartsStateLatest(hps, w, nm, hs, sc) == HeartsPlayedOne(w)

\* Game::round, lines 101-111; the players are compared by value
NextHeartsState(hps, w, nm, hs, sc) ==
    IF hps[1] = "NoHeartsPlayed" THEN HeartsPlayedOne(w)
    ELSE IF hps[1] = "HeartsPlayedOne" /\ PlayerEq(nm, hs, sc, hps[2], w) THEN hps
    ELSE HeartsPlayedMany

MoonPenalty == 26

\* Game::round, lines 119-127: the players in seat order, each add_score seen by the next comparison
RECURSIVE AddScores(_, _, _, _, _, _)
AddScores(i, sc, nm, hs, rs, hps) ==
    IF i = NumPlayers THEN sc
    ELSE AddScores(i + 1,
            IF hps[1] = "HeartsPlayedOne"
            THEN IF ~PlayerEq(nm, hs, sc, i, hps[2])
                 THEN [sc EXCEPT ![i] = AddU8(sc[i], MoonPenalty)]
                 ELSE sc
            ELSE [sc EXCEPT ![i] = AddU8(sc[i], rs[i])],
            nm, hs, rs, hps)

\* the smallest persistent score instead of the largest
MaxScoreSmallest(sc) == CHOOSE m \in {sc[i] : i \in Seats} : \A i \in Seats : sc[i] >= m

\* Game::max_score
MaxScore(sc) == CHOOSE m \in {sc[i] : i \in Seats} : \A i \in Seats : sc[i] <= m

\* Game::round, lines 89-94: the first player holding the two of clubs
StartingIndex(hs) == CHOOSE i \in Seats : HasTwoOfClubs(hs[i]) /\ \A j \in 0..(i - 1) : ~HasTwoOfClubs(hs[j])

\* Game::pass_cards, lines 179-181: the receivers take, in the order collected
RECURSIVE ApplyTakes(_, _)
ApplyTakes(hs, ctp) ==
    IF ctp = <<>> THEN hs
    ELSE ApplyTakes([hs EXCEPT ![Head(ctp)[1]] = Take(hs[Head(ctp)[1]], Head(ctp)[2])], Tail(ctp))

\* Game::pass_cards, line 176: the giver's hand after Player::pass
HandsAfterPass(hs, a, b, choices) == [hs EXCEPT ![a] = Pass(hs[a], choices).to_keep]

\* Game::pass_cards, line 176: the entry pushed on cards_to_pass
PassEntry(hs, a, b, choices) == <<b, Pass(hs[a], choices).to_pass>>

\* ------------------------------------------------------------ state
\* the names get_names may return: four different ones, or the same one four times
NameLists == { <<"Ann", "Bob", "Cy", "Dee">>, <<"Ann", "Ann", "Ann", "Ann">> }
NameVectors == {[i \in Seats |-> l[i + 1]] : l \in NameLists}

VARIABLES
    names,          \* Player::name per seat
    hand,           \* Player::hand per seat, a Vec<Card>
    score,          \* Player::score per seat, the persistent u8
    deck,           \* Deck::cards
    passing_order,  \* position of the Cycle<PassingOrderIter>
    pc,             \* "main" | "pass" | "play" | "exit"
    result,         \* "none" | "PassError" | "TurnError"
    ret,            \* the value of the last Ok(round()), 0 before the first
    roundNo,        \* rounds started (kept modulo the passing cycle past the round bound)
    order,          \* next_passing_order of the running round
    passK,          \* pairs of passing_indices already answered
    cards_to_pass,  \* the local of pass_cards
    hearts_played_state, starting_index, scores, turn,   \* locals of round
    table, is_first_move,                                \* locals of turn
    \* history, read by the properties only
    startHand,      \* the hands as dealt, i.e. when pass_cards was called
    choice,         \* the answer given for each giver
    scoreBefore,    \* the persistent scores when the round began
    heartWinners,   \* winners of the tricks of this round that held a hearts card
    lastTable,      \* the table of the last completed trick
    played,         \* the cards placed on the table so far in this round
    offered         \* the options of the last stand-alone get_card_to_place query

vars == <<names, hand, score, deck, passing_order, pc, result, ret, roundNo, order, passK,
          cards_to_pass, hearts_played_state, starting_index, scores, turn, table,
          is_first_move, startHand, choice, scoreBefore, heartWinners, lastTable, played,
          offered>>

ZeroScores == [i \in Seats |-> 0]
NoChoice == [i \in Seats |-> {}]

Init ==
    /\ names \in NameVectors
    /\ hand = [i \in Seats |-> <<>>]
    /\ score = ZeroScores
    /\ deck = NewDeck
    /\ passing_order = 0
    /\ pc = "main"
    /\ result = "none"
    /\ ret = 0
    /\ roundNo = 0
    /\ order = "Hold"
    /\ passK = 0
    /\ cards_to_pass = <<>>
    /\ hearts_played_state = NoHeartsPlayed
    /\ starting_index = 0
    /\ scores = ZeroScores
    /\ turn = 1
    /\ table = <<>>
    /\ is_first_move = FALSE
    /\ startHand = [i \in Seats |-> <<>>]
    /\ choice = NoChoice
    /\ scoreBefore = ZeroScores
    /\ heartWinners = {}
    /\ lastTable = <<>>
    /\ played = {}
    /\ offered = {}

\* Game::round, lines 86-96: the locals of round before the first trick
BeginPlay(hs) ==
    /\ pc' = "play"
    /\ hearts_played_state' = NoHeartsPlayed
    /\ starting_index' = StartingIndex(hs)
    /\ scores' = ZeroScores
    /\ turn' = 1
    /\ table' = <<>>
    /\ is_first_move' = TRUE
    /\ heartWinners' = {}
    /\ lastTable' = <<>>
    /\ played' = {}

\* main calls round: deal, next passing order, and pass_cards up to its first query;
\* the shuffle is one of shuffleSet; at most maxRounds rounds are started unless cyclic,
\* where the round counter wraps by one passing cycle instead
RoundCall(shuffleSet, maxRounds, cyclic) ==
    /\ pc = "main"
    /\ ret < MAX_SCORE
    /\ cyclic \/ roundNo < maxRounds
    /\ \E p \in shuffleSet :
        LET d == Shuffle(deck, p)
            hs == Deal(hand, d)
            next_passing_order == PassingOrders[passing_order + 1]
        IN  /\ deck' = d
            /\ hand' = hs
            /\ startHand' = hs
            /\ order' = next_passing_order
            /\ IF PassingIndices(next_passing_order) = <<>>
               THEN BeginPlay(hs)
               ELSE /\ pc' = "pass"
                    /\ UNCHANGED <<hearts_played_state, starting_index, scores, turn, table,
                                   is_first_move, heartWinners, lastTable, played>>
    /\ passing_order' = (passing_order + 1) % Len(PassingOrders)
    /\ roundNo' = IF roundNo < maxRounds THEN roundNo + 1 ELSE roundNo + 1 - Len(PassingOrders)
    /\ passK' = 0
    /\ cards_to_pass' = <<>>
    /\ choice' = NoChoice
    /\ scoreBefore' = score
    /\ UNCHANGED <<names, score, result, ret, offered>>

StartRound == RoundCall(Shuffles, MaxRounds, FALSE)

\* get_cards_to_pass answers for the next pair; after the fourth answer the receivers take
PassAnswer ==
    /\ pc = "pass"
    /\ LET a == PassingIndices(order)[passK + 1][1]
           b == PassingIndices(order)[passK + 1][2]
       IN \E cs \in PassAnswers(hand[a]) :
            LET hs == HandsAfterPass(hand, a, b, cs)
                ctp == Append(cards_to_pass, PassEntry(hand, a, b, cs))
            IN  /\ choice' = [choice EXCEPT ![a] = cs]
                /\ IF passK + 1 < Len(PassingIndices(order))
                   THEN /\ hand' = hs
                        /\ cards_to_pass' = ctp
                        /\ passK' = passK + 1
                        /\ UNCHANGED <<pc, hearts_played_state, starting_index, scores, turn,
                                       table, is_first_move, heartWinners, lastTable, played>>
                   ELSE /\ hand' = ApplyTakes(hs, ctp)
                        /\ cards_to_pass' = <<>>
                        /\ passK' = passK + 1
                        /\ BeginPlay(ApplyTakes(hs, ctp))
    /\ UNCHANGED <<names, score, deck, passing_order, result, ret, roundNo, order, startHand,
                   scoreBefore, offered>>

\* get_cards_to_pass fails: pass_cards and round return PassError, main returns
PassFail ==
    /\ pc = "pass"
    /\ pc' = "exit"
    /\ result' = "PassError"
    /\ UNCHANGED <<names, hand, score, deck, passing_order, ret, roundNo, order, passK,
                   cards_to_pass, hearts_played_state, starting_index, scores, turn, table,
                   is_first_move, startHand, choice, scoreBefore, heartWinners, lastTable,
                   played, offered>>

\* the scoring loop runs after every trick
ScoreEveryTrick(t, sc, nm, hs, rs, hps) == AddScores(0, sc, nm, hs, rs, hps)

\* Game::round, lines 97-127: the persistent scores after trick t resolved; add_score
\* runs only in the loop that follows the last trick
ScoreAfterTrick(t, sc, nm, hs, rs, hps) ==
    IF t < HandSize THEN sc ELSE AddScores(0, sc, nm, hs, rs, hps)

\* Game::turn for the asked player once get_card_to_place returned card c: place, push,
\* and after the fourth card the trick is resolved; the last trick of the round is
\* followed by the scoring
PlayCard(c) ==
    /\ pc = "play"
    /\ LET i == RoundOrder(starting_index)[Len(table) + 1]
           placed == Place(hand[i], c)
           hs == [hand EXCEPT ![i] = placed.hand]
           tbl == Append(table, <<i, c>>)
       IN  IF ~placed.ok
           THEN /\ pc' = "exit"
                /\ result' = "TurnError"
                /\ UNCHANGED <<hand, score, ret, hearts_played_state, starting_index,
                               scores, turn, table, is_first_move, heartWinners, lastTable,
                               played>>
           ELSE IF Len(tbl) < NumPlayers
           THEN /\ hand' = hs
                /\ table' = tbl
                /\ is_first_move' = FALSE
                /\ played' = played \cup {c}
                /\ UNCHANGED <<pc, result, score, ret, hearts_played_state, starting_index,
                               scores, turn, heartWinners, lastTable>>
           ELSE LET w == TrickWinner(tbl)[1]
                    hps == IF HeartsPlayed(tbl)
                           THEN NextHeartsState(hearts_played_state, w, names, hs, score)
                           ELSE hearts_played_state
                    rs == [scores EXCEPT ![w] = AddU8(scores[w], TrickScore(tbl))]
                    sc == ScoreAfterTrick(turn, score, names, hs, rs, hps)
                IN  /\ hand' = hs
                    /\ hearts_played_state' = hps
                    /\ scores' = rs
                    /\ starting_index' = w
                    /\ table' = <<>>
                    /\ is_first_move' = FALSE
                    /\ played' = played \cup {c}
                    /\ lastTable' = tbl
                    /\ heartWinners' = IF HeartsPlayed(tbl) THEN heartWinners \cup {w} ELSE heartWinners
                    /\ result' = result
                    /\ score' = sc
                    /\ IF turn < HandSize
                       THEN /\ turn' = turn + 1
                            /\ UNCHANGED <<pc, ret>>
                       ELSE /\ turn' = turn
                            /\ ret' = MaxScore(sc)
                            /\ pc' = "main"
    /\ UNCHANGED <<names, deck, passing_order, roundNo, order, passK, cards_to_pass, startHand,
                   choice, scoreBefore, offered>>

\* get_card_to_place of CLIController answers with one of the options it offered
PlayAnswer ==
    /\ pc = "play"
    /\ \E c \in Range(CardOptions(hand[RoundOrder(starting_index)[Len(table) + 1]], table,
                                  is_first_move, hearts_played_state)) : PlayCard(c)

\* a Controller implementation answers with a card the asked player does not hold
PlayForeign ==
    /\ pc = "play"
    /\ \E c \in Range(NewDeck) \ Range(hand[RoundOrder(starting_index)[Len(table) + 1]]) :
        PlayCard(c)

\* get_card_to_place fails: turn and round return TurnError, main returns
PlayFail ==
    /\ pc = "play"
    /\ pc' = "exit"
    /\ result' = "TurnError"
    /\ UNCHANGED <<names, hand, score, deck, passing_order, ret, roundNo, order, passK,
                   cards_to_pass, hearts_played_state, starting_index, scores, turn, table,
                   is_first_move, startHand, choice, scoreBefore, heartWinners, lastTable,
                   played, offered>>

Next == StartRound \/ PassAnswer \/ PassFail \/ PlayAnswer \/ PlayForeign \/ PlayFail

Spec == Init /\ [][Next]_vars

\* main, lines 8-10: the while loop ends once round returned MAX_SCORE or more
Exit ==
    /\ pc = "main"
    /\ roundNo > 0
    /\ ret >= MAX_SCORE
    /\ pc' = "exit"
    /\ result' = "Ok"
    /\ UNCHANGED <<names, hand, score, deck, passing_order, ret, roundNo, order, passK,
                   cards_to_pass, hearts_played_state, starting_index, scores, turn, table,
                   is_first_move, startHand, choice, scoreBefore, heartWinners, lastTable,
                   played, offered>>

\* the game loop followed over LongRounds rounds, each shuffle being the first fixture
StartRoundLong == RoundCall({ShuffleList[1]}, LongRounds, FALSE)

NextLong ==
    StartRoundLong \/ PassAnswer \/ PassFail \/ PlayAnswer \/ PlayForeign \/ PlayFail \/ Exit

SpecLong == Init /\ [][NextLong]_vars

\* the game loop without a bound on the rounds
StartRoundLive == RoundCall({ShuffleList[1]}, LongRounds, TRUE)

\* the user accepts the option the Select prompt highlights first
PlayFirst ==
    /\ pc = "play"
    /\ PlayCard(CardOptions(hand[RoundOrder(starting_index)[Len(table) + 1]], table,
                            is_first_move, hearts_played_state)[1])

NextLive == StartRoundLive \/ PassAnswer \/ PlayFirst \/ Exit

SpecLive ==
    /\ Init
    /\ [][NextLive]_vars
    /\ WF_vars(StartRoundLive) /\ WF_vars(PassAnswer) /\ WF_vars(PlayFirst) /\ WF_vars(Exit)

\* ------------------------------------------------------------ properties
\* the player get_card_to_place is asked about next
Asked == RoundOrder(starting_index)[Len(table) + 1]
\* the cards offered to that player
Offered == Range(CardOptions(hand[Asked], table, is_first_move, hearts_played_state))
HandSet(i) == Range(hand[i])
RoundOver == pc = "main" /\ roundNo > 0
\* the point values of the whole deck
DeckPoints == SeqSum([k \in 1..DeckSize |-> Score(NewDeck[k])])
Delta(i) == score[i] - scoreBefore[i]
PassDone == pc = "play" /\ turn = 1 /\ table = <<>> /\ order # "Hold"
\* the receiver of seat a as the rotation maps it
Receiver(a) ==
    CASE order = "Right" -> (a + 1) % NumPlayers
      [] order = "Across" -> (a + 2) % NumPlayers
      [] order = "Left" -> (a + 3) % NumPlayers

\* C1: after every completed trick the winner (the next starting player) played the
\* highest-rank card among the cards of the led suit, and played a card of the led suit.
C1_TrickWinner ==
    lastTable # <<>> =>
        LET led == lastTable[1][2].suit
            ledIdx == {k \in 1..Len(lastTable) : lastTable[k][2].suit = led}
        IN  /\ Len(lastTable) = NumPlayers
            /\ \E k \in ledIdx :
                /\ lastTable[k][1] = starting_index
                /\ \A j \in ledIdx : lastTable[j][2].rank <= lastTable[k][2].rank
            /\ \A k \in 1..Len(lastTable) :
                lastTable[k][2].suit # led => lastTable[k][1] # starting_index

\* a trick where a card of another suit outranks the winning card
C1_Witness ==
    /\ lastTable # <<>>
    /\ \E k, j \in 1..Len(lastTable) :
        /\ lastTable[k][1] = starting_index
        /\ lastTable[j][2].suit # lastTable[1][2].suit
        /\ lastTable[j][2].rank > lastTable[k][2].rank

\* C2: when a round completes, either the four round totals sum to the deck's points
\* and every persistent score grew by its player's own total, or one player shot the
\* moon and the scores grew by 0 for that player and by 26 for the three others.
C2_RoundScoring ==
    RoundOver =>
        LET own == /\ scores[0] + scores[1] + scores[2] + scores[3] = DeckPoints
                   /\ \A i \in Seats : Delta(i) = scores[i]
            moon == \E s \in Seats : \A i \in Seats : Delta(i) = IF i = s THEN 0 ELSE MoonPenalty
        IN  (own \/ moon) /\ ~(own /\ moon)

\* C3: at the end of the round the moon rule (26 to every other player, 0 to the
\* shooter) is applied if and only if a single player won every trick that held a
\* hearts card, and the shooter is that player.
C3_MoonRule ==
    RoundOver =>
        LET single == Cardinality(heartWinners) = 1
            applied == \E s \in Seats : \A i \in Seats : Delta(i) = IF i = s THEN 0 ELSE MoonPenalty
        IN  /\ applied <=> single
            /\ single => \A i \in Seats : Delta(i) = IF i \in heartWinners THEN 0 ELSE MoonPenalty
            /\ ~single => \A i \in Seats : Delta(i) = scores[i]

\* C4: a player who follows and holds a card of the led suit is offered cards of the
\* led suit only, whatever the led suit and the HeartsPlayedState; a player holding
\* none is offered the whole hand.
C4_FollowSuit ==
    (pc = "play" /\ table # <<>>) =>
        LET led == table[1][2].suit
        IN  IF \E c \in HandSet(Asked) : c.suit = led
            THEN \A c \in Offered : c.suit = led
            ELSE Offered = HandSet(Asked)

\* C5: a leader under NoHeartsPlayed holding hearts and other cards is offered no
\* hearts card; a leader holding hearts only is offered the whole hand; under
\* HeartsPlayedOne or HeartsPlayedMany a leader is offered the whole hand.
C5_LeadHearts ==
    (pc = "play" /\ table = <<>>) =>
        LET h == HandSet(Asked)
            hearts == {c \in h : c.suit = "Hearts"}
        IN  /\ (hearts_played_state[1] = "NoHeartsPlayed" /\ hearts # {} /\ hearts # h)
                => Offered \cap hearts = {}
            /\ (hearts_played_state[1] = "NoHeartsPlayed" /\ hearts = h) => Offered = h
            /\ hearts_played_state[1] # "NoHeartsPlayed" => Offered = h

\* a leader after the first trick, under NoHeartsPlayed, holding hearts and other cards
C5_Witness ==
    /\ pc = "play" /\ table = <<>> /\ turn > 1
    /\ hearts_played_state[1] = "NoHeartsPlayed"
    /\ \E c \in HandSet(Asked) : c.suit = "Hearts"
    /\ \E c \in HandSet(Asked) : c.suit # "Hearts"

\* C6: the first card of the first trick is asked of the player who holds the two of
\* clubs once the pass phase is over, and the only card offered is the two of clubs.
C6_FirstLead ==
    (pc = "play" /\ turn = 1 /\ table = <<>>) =>
        /\ Asked = starting_index
        /\ HasTwoOfClubs(hand[starting_index])
        /\ Offered = {Card(Two, "Clubs")}

\* a first lead by a player who was not dealt the two of clubs
C6_Witness ==
    /\ pc = "play" /\ turn = 1 /\ table = <<>>
    /\ ~HasTwoOfClubs(startHand[starting_index])
    /\ HasTwoOfClubs(hand[starting_index])

C8_CollectBeforeMutate == pc = "pass" => hand = startHand

\* C9: when pass_cards returns PassError every hand holds the cards it held when
\* pass_cards was called.
C9_PassErrorAtomic ==
    result = "PassError" => \A i \in Seats : HandSet(i) = Range(startHand[i])

\* C10: right after the deal of every round each hand has a quarter of the deck, the
\* hands are pairwise disjoint and their union is the whole deck.
C10_Deal ==
    ((pc = "pass" /\ passK = 0) \/ (pc = "play" /\ order = "Hold" /\ turn = 1 /\ table = <<>>)) =>
        /\ \A i \in Seats : Len(hand[i]) = HandSize /\ Cardinality(HandSet(i)) = HandSize
        /\ \A i, j \in Seats : i # j => HandSet(i) \cap HandSet(j) = {}
        /\ UNION {HandSet(i) : i \in Seats} = {Card(r, s) : r \in Range(RankSeq), s \in Range(SuitSeq)}
        /\ Cardinality(UNION {HandSet(i) : i \in Seats}) = NumPlayers * HandSize

\* the deal of a round that follows a completed round
C10_Witness == pc = "pass" /\ passK = 0 /\ roundNo >= 2

\* C11: the k-th call to round uses Right, Across, Left, Hold for k mod 4 = 1, 2, 3, 0; the
\* cursor is k mod 4 after the k-th call; a Hold round never asks for a pass selection
\* and begins its first trick with the hands as dealt.
C11_PassingCycle ==
    roundNo > 0 =>
        /\ order = CASE roundNo % 4 = 1 -> "Right"
                     [] roundNo % 4 = 2 -> "Across"
                     [] roundNo % 4 = 3 -> "Left"
                     [] roundNo % 4 = 0 -> "Hold"
        /\ passing_order = roundNo % 4
        /\ order = "Hold" =>
            /\ pc # "pass"
            /\ passK = 0
            /\ choice = NoChoice
            /\ (pc = "play" /\ turn = 1 /\ table = <<>>) => hand = startHand

\* the fifth round, after the Hold round, passes to the right again
C11_Witness == roundNo = 5 /\ order = "Right" /\ pc = "play"

\* C12: in every run in which the collaborator never fails, some round eventually
\* returns MAX_SCORE or more and main leaves its loop.
C12_Terminates == <>(pc = "exit" /\ result = "Ok" /\ ret >= MAX_SCORE)

\* C13: persistent scores start at 0, never fall below their value at the start of the
\* round, and stay at most 125; no addition wraps: the round buffer sums to the points of
\* the cards of the resolved tricks, and a completed round added 0, 26 or the player's
\* round total to each persistent score.
C13_ScoreBounds ==
    /\ roundNo = 0 => score = ZeroScores
    /\ \A i \in Seats :
        /\ score[i] >= scoreBefore[i]
        /\ score[i] <= 125
        /\ RoundOver => Delta(i) \in {0, MoonPenalty, scores[i]}
    /\ pc \in {"play", "main"} =>
        SeqSum([k \in 1..NumPlayers |-> scores[k - 1]])
            = SeqSum([k \in 1..DeckSize |->
                        IF NewDeck[k] \in played /\ \A j \in 1..Len(table) : table[j][2] # NewDeck[k]
                        THEN Score(NewDeck[k]) ELSE 0])

\* a persistent score has passed MAX_SCORE
C13_Witness == RoundOver /\ \E i \in Seats : score[i] > MAX_SCORE

\* C14: HeartsPlayedState is NoHeartsPlayed when the first trick of a round begins, and
\* within a round it changes only when a trick that held a hearts card is resolved, and
\* then from NoHeartsPlayed to HeartsPlayedOne(winner) or from HeartsPlayedOne(p) to
\* HeartsPlayedMany; HeartsPlayedMany is kept until the round ends.
C14_HeartsForward ==
    [][ /\ (pc' = "play" /\ turn' = 1) => hearts_played_state' = NoHeartsPlayed
        /\ (pc = "play" /\ hearts_played_state' # hearts_played_state) =>
            /\ Len(table) = NumPlayers - 1
            /\ table' = <<>>
            /\ Len(lastTable') = NumPlayers
            /\ \E k \in 1..Len(lastTable') : lastTable'[k][2].suit = "Hearts"
            /\ \/ /\ hearts_played_state = NoHeartsPlayed
                  /\ hearts_played_state' = HeartsPlayedOne(starting_index')
               \/ /\ hearts_played_state[1] = "HeartsPlayedOne"
                  /\ hearts_played_state' = HeartsPlayedMany
      ]_vars

\* a round in which a second player won a hearts trick before the last trick
C14_Witness == pc = "play" /\ hearts_played_state = HeartsPlayedMany /\ Cardinality(heartWinners) > 1

\* C15: in every trick the cards on the table were placed by the seats s, s+1, s+2, s+3
\* (mod 4) in this order, one card each, where s holds (or has just led) the two of clubs
\* in the first trick of a round and is the winner of the previous trick afterwards.
C15_AskOrder ==
    /\ pc = "play" =>
        /\ Len(table) < NumPlayers
        /\ \A k \in 1..Len(table) : table[k][1] = (starting_index + k - 1) % NumPlayers
        /\ turn = 1 =>
            \/ \E c \in HandSet(starting_index) : c.rank = Two /\ c.suit = "Clubs"
            \/ table # <<>> /\ table[1][2].rank = Two /\ table[1][2].suit = "Clubs"
        /\ turn > 1 =>
            \E k \in 1..Len(lastTable) :
                /\ lastTable[k][1] = starting_index
                /\ lastTable[k][2].suit = lastTable[1][2].suit
                /\ \A j \in 1..Len(lastTable) :
                    lastTable[j][2].suit = lastTable[1][2].suit
                        => lastTable[j][2].rank <= lastTable[k][2].rank
    /\ lastTable # <<>> =>
        /\ Len(lastTable) = NumPlayers
        /\ \A k \in 1..NumPlayers : lastTable[k][1] = (lastTable[1][1] + k - 1) % NumPlayers

\* a later trick led from seat 2: the order of asking wraps from seat 3 to seat 0
C15_Witness ==
    pc = "play" /\ turn > 1 /\ starting_index = 2 /\ Len(table) = NumPlayers - 1

\* C16: while a round runs without failure every player has placed one card of their
\* own hand in each resolved trick: a hand has HandSize less the resolved tricks less the
\* card on the table; no card was placed twice, the cards placed and the cards in hand
\* make up the deck; after the last trick all hands are empty.
C16_OneCardPerTrick ==
    (pc = "play" \/ RoundOver) =>
        LET resolved == IF pc = "play" THEN turn - 1 ELSE HandSize
            onTable(i) == Cardinality({k \in 1..Len(table) : table[k][1] = i})
        IN  /\ \A i \in Seats :
                /\ Len(hand[i]) = HandSize - resolved - onTable(i)
                /\ Cardinality(HandSet(i)) = Len(hand[i])
                /\ onTable(i) <= 1
                /\ HandSet(i) \cap played = {}
                /\ \A j \in Seats : i # j => HandSet(i) \cap HandSet(j) = {}
            /\ Cardinality(played) = NumPlayers * resolved + Len(table)
            /\ played \cup UNION {HandSet(i) : i \in Seats} = Range(NewDeck)
            /\ \A k \in 1..Len(table) : table[k][2] \in played
            /\ RoundOver => \A i \in Seats : hand[i] = <<>>

\* the last trick has resolved: the whole deck was placed
C16_Witness == RoundOver /\ result = "none" /\ Cardinality(played) = DeckSize

\* ------------------------------------------------------------ get_card_to_place alone
\* the arguments of one get_card_to_place query: seat 0 is asked; the hand is any 1 to
\* HandSize cards, the table any prefix of up to MaxTableLen other cards. The arguments
\* are those a trick can produce: the first move is the lead of the two of clubs from a
\* full hand, the two of clubs is in no hand afterwards, and a HeartsPlayedState other
\* than NoHeartsPlayed follows a resolved trick that held a hearts card
TwoOfClubs == Card(Two, "Clubs")

QueryArguments(h, tbl, first, hps) ==
    LET onTable == {tbl[k][2] : k \in 1..Len(tbl)}
    IN  /\ Cardinality(onTable) = Len(tbl)
        /\ onTable \cap Range(h) = {}
        /\ first => (tbl = <<>> /\ hps = NoHeartsPlayed /\ TwoOfClubs \in Range(h) /\ Len(h) = HandSize)
        /\ ~first => TwoOfClubs \notin Range(h)
        /\ TwoOfClubs \in onTable => (tbl[1][2] = TwoOfClubs /\ Len(h) = HandSize /\ hps = NoHeartsPlayed)
        /\ hps # NoHeartsPlayed =>
            /\ Len(h) < HandSize
            /\ \E c \in Range(NewDeck) : IsHearts(c) /\ c \notin Range(h) /\ c \notin onTable

InitLegal ==
    /\ \E cs \in SUBSET Range(NewDeck) : \E n \in 0..MaxTableLen :
        \E t \in [1..n -> Range(NewDeck)] :
            /\ cs # {}
            /\ Cardinality(cs) <= HandSize
            /\ hand = [i \in Seats |-> IF i = 0 THEN SelectSeq(NewDeck, LAMBDA c : c \in cs) ELSE <<>>]
            /\ starting_index = (NumPlayers - n) % NumPlayers
            /\ table = [k \in 1..n |-> <<(NumPlayers - n + k - 1) % NumPlayers, t[k]>>]
    /\ is_first_move \in BOOLEAN
    /\ hearts_played_state \in {NoHeartsPlayed, HeartsPlayedMany} \cup {HeartsPlayedOne(p) : p \in Seats}
    /\ QueryArguments(hand[0], table, is_first_move, hearts_played_state)
    /\ names = [i \in Seats |-> "Ann"]
    /\ score = ZeroScores
    /\ deck = NewDeck
    /\ passing_order = 0
    /\ pc = "query"
    /\ result = "none"
    /\ ret = 0
    /\ roundNo = 1
    /\ order = "Hold"
    /\ passK = 0
    /\ cards_to_pass = <<>>
    /\ scores = ZeroScores
    /\ turn = 1
    /\ startHand = [i \in Seats |-> <<>>]
    /\ choice = NoChoice
    /\ scoreBefore = ZeroScores
    /\ heartWinners = {}
    /\ lastTable = <<>>
    /\ played = {}
    /\ offered = {}

\* get_card_to_place builds the options it hands to Select::new
OfferCards ==
    /\ pc = "query"
    /\ pc' = "offered"
    /\ offered' = Range(CardOptions(hand[Asked], table, is_first_move, hearts_played_state))
    /\ UNCHANGED <<names, hand, score, deck, passing_order, result, ret, roundNo, order, passK,
                   cards_to_pass, hearts_played_state, starting_index, scores, turn, table,
                   is_first_move, startHand, choice, scoreBefore, heartWinners, lastTable,
                   played>>

NextLegal == OfferCards

SpecLegal == InitLegal /\ [][NextLegal]_vars

\* a card passes the three filters of get_card_to_place
PassesFilters(c) ==
    /\ is_first_move => (c.rank = Two /\ c.suit = "Clubs")
    /\ table # <<>> => c.suit = table[1][2].suit
    /\ hearts_played_state = NoHeartsPlayed => c.suit # "Hearts"

\* C17 as stated: the legal set is a non-empty subset of the hand and is the whole hand
\* exactly when the three filters together eliminate every card.
C17_WholeHandIff ==
    pc = "offered" =>
        /\ offered # {}
        /\ offered \subseteq HandSet(0)
        /\ offered = HandSet(0) <=> \A c \in HandSet(0) : ~PassesFilters(c)

\* C17: the legal set is a non-empty subset of the hand: the cards that pass the three
\* filters when there is one, and the whole hand when the filters eliminate every card.
C17_LegalSet ==
    pc = "offered" =>
        /\ offered # {}
        /\ offered \subseteq HandSet(0)
        /\ IF \A c \in HandSet(0) : ~PassesFilters(c)
           THEN offered = HandSet(0)
           ELSE offered = {c \in HandSet(0) : PassesFilters(c)}

\* the fallback: a hand of several cards none of which passes the filters
C17_Witness ==
    /\ pc = "offered"
    /\ Len(hand[0]) > 1
    /\ \A c \in HandSet(0) : ~PassesFilters(c)
    /\ offered = HandSet(0)

\* C18: when the collaborator names a card that is not in the asked player's hand, the
\* hand and the table stay as they are and round returns TurnError at once: no score
\* changes, and once main has returned nobody is asked again and no trick is played.
C18_ForeignCard ==
    [][ /\ \A c \in Range(NewDeck) :
            (pc = "play" /\ c \notin HandSet(Asked) /\ PlayCard(c)) =>
                /\ hand' = hand
                /\ table' = table
                /\ pc' = "exit"
                /\ result' = "TurnError"
                /\ turn' = turn
                /\ played' = played
                /\ score' = score
        /\ pc = "exit" => UNCHANGED vars
      ]_vars

\* a round aborted with TurnError in the middle of a later trick
C18_Witness == pc = "exit" /\ result = "TurnError" /\ turn > 1 /\ table # <<>>

\* C19: players are identified by seat, whatever their names: HeartsPlayedOne(p) is held
\* only while seat p won every trick of the round that held a hearts card, and after a
\* round in which seat p won all of them the three other seats received 26 and seat p 0.
C19_SeatIdentity ==
    /\ (pc \in {"play", "main"} /\ hearts_played_state[1] = "HeartsPlayedOne") =>
        heartWinners = {hearts_played_state[2]}
    /\ (RoundOver /\ Cardinality(heartWinners) = 1) =>
        \A i \in Seats : Delta(i) = IF i \in heartWinners THEN 0 ELSE MoonPenalty

\* C20: persistent scores change only in the step that resolves the last trick of a
\* round; a round that ends with PassError or TurnError leaves every persistent score at
\* its value from the start of that round.
C20_AbortKeepsScores ==
    [][ /\ score' # score =>
            /\ pc = "play"
            /\ pc' = "main"
            /\ turn = HandSize
            /\ Len(table) = NumPlayers - 1
        /\ (pc' = "exit" /\ result' \in {"PassError", "TurnError"}) => score' = scoreBefore'
      ]_vars

\* a later round aborted after tricks with points had been resolved in it
C20_Witness ==
    /\ pc = "exit"
    /\ result \in {"PassError", "TurnError"}
    /\ scores # ZeroScores
    /\ \E i \in Seats : score[i] > 0

====
